---- MODULE Spec2Model ----
(***************************************************************************)
(* A model of github.go: the archive extractor readTarResponse, the        *)
(* matchers MatchesOneOf and MatchAll, and the two retrieval callers       *)
(* DownloadSelectedRepositoryFiles and DownloadArtifact.                   *)
(*                                                                         *)
(* Strings whose characters the code looks at (entry names, patterns) are  *)
(* sequences of one-character strings.  The archive is a stream: a tar     *)
(* header becomes known when tr.Next() returns it, the zip directory when  *)
(* zip.NewReader returns it.  Library calls that can fail (gzip, zip, tar, *)
(* io.Copy, the HTTP client, the GitHub API) fail nondeterministically.    *)
(***************************************************************************)
EXTENDS Integers, Sequences, FiniteSets, TLC

\* ------------------------------------------------------------------ bounds
MaxEntries == 2

MaxStrip == 2

MaxPatterns == 3

MaxArtifacts == 2

\* http.StatusOK
StatusOK == 200

\* The sequences over S of length at most n.
BSeq(S, n) == UNION {[1..k -> S] : k \in 0..n}

\* ----------------------------------------------------------------- strings
\* os.PathSeparator on the platforms GitHub runners use.
PathSeparator == "/"

NameA == <<"a">>

NameRA == <<"r", "/", "a">>

NameQA == <<"q", "/", "a">>

NameRSA == <<"r", "/", "s", "/", "a">>

DirR == <<"r", "/">>

DirRS == <<"r", "/", "s", "/">>

PaxGlobalHeader == <<"g">>

\* strings.Index for a one-character separator: 0 when absent.
IndexOf(s, c) ==
    IF \E i \in 1..Len(s) : s[i] = c
    THEN CHOOSE i \in 1..Len(s) : s[i] = c /\ \A j \in 1..(i - 1) : s[j] # c
    ELSE 0

\* A plausible slip: strings.Split, which cuts at every separator.
RECURSIVE SplitEvery(_, _, _)
SplitEvery(s, sep, n) ==
    LET m == IndexOf(s, sep) IN
    IF m = 0 THEN <<s>>
    ELSE <<SubSeq(s, 1, m - 1)>> \o SplitEvery(SubSeq(s, m + 1, Len(s)), sep, n)

\* strings.SplitN(s, sep, n): at most n substrings, the last one the unsplit
\* remainder; n = 0 gives none, n < 0 gives all.
RECURSIVE SplitN(_, _, _)
SplitN(s, sep, n) ==
    IF n = 0 THEN <<>>
    ELSE LET m == IndexOf(s, sep) IN
         IF n = 1 \/ m = 0 THEN <<s>>
         ELSE <<SubSeq(s, 1, m - 1)>> \o SplitN(SubSeq(s, m + 1, Len(s)), sep, n - 1)

\* ----------------------------------------------------------------- entries
\* What the code reads of a tar header or a zip file header, and the content.
TarFile(n, d) == [name |-> n, isDir |-> FALSE, format |-> "USTAR", data |-> d]

TarDir(n) == [name |-> n, isDir |-> TRUE, format |-> "USTAR", data |-> ""]

TarPax(n, d) == [name |-> n, isDir |-> FALSE, format |-> "PAX", data |-> d]

ZipFile(n, d) == [name |-> n, isDir |-> FALSE, format |-> "ZIP", data |-> d]

ZipDir(n) == [name |-> n, isDir |-> TRUE, format |-> "ZIP", data |-> ""]

TarEntries ==
    { TarFile(NameA, "x"), TarFile(NameA, "y"), TarFile(NameRA, "x"),
      TarFile(NameQA, "y"), TarFile(NameRSA, "x"),
      TarDir(DirR), TarDir(DirRS),
      TarPax(PaxGlobalHeader, ""), TarPax(NameRA, "y") }

ZipEntries ==
    { ZipFile(NameA, "x"), ZipFile(NameA, "y"), ZipFile(NameRA, "x"),
      ZipFile(NameQA, "y"), ZipFile(NameRSA, "x"),
      ZipDir(DirR), ZipDir(DirRS) }

\* hdr.FileInfo() / f.FileInfo(): the metadata of the header it was made from.
FileInfo(e) == [Name |-> e.name, IsDir |-> e.isDir]

\* The RepositoryFile literal stored under a key.
RepositoryFile(path, e) == [Path |-> path, FileInfo |-> FileInfo(e), Data |-> e.data]

EmptyFiles == <<>>

\* A plausible slip: keep the record already stored under the key.
PutIfAbsent(f, k, v) ==
    [x \in (DOMAIN f) \cup {k} |-> IF x \in DOMAIN f THEN f[x] ELSE v]

\* files[k] = v
Put(f, k, v) ==
    [x \in (DOMAIN f) \cup {k} |-> IF x = k THEN v ELSE f[x]]

\* A returned (map, error) pair's map: nil, or a map.
NilMap == [isNil |-> TRUE, m |-> EmptyFiles]

SomeMap(f) == [isNil |-> FALSE, m |-> f]

\* ---------------------------------------------------------------- matchers
\* Patterns are literal characters; "(" is never closed in this alphabet, so a
\* pattern holding one does not compile.
PatA == <<"a">>

PatS == <<"s", "/">>

PatQ == <<"q">>

PatBad == <<"(">>

Patterns == {PatA, PatS, PatQ, PatBad}

\* regexp.CompilePOSIX(p) returns no error.
Compiles(p) == \A i \in 1..Len(p) : p[i] # "("

\* exp.MatchString(path) for a compiled pattern of literals: an unanchored search.
MatchString(p, path) ==
    \E i \in 0..(Len(path) - Len(p)) : SubSeq(path, i + 1, i + Len(p)) = p

\* One pass of the loop body of MatchesOneOf on pattern p: "panic" when the
\* pattern does not compile (exp is nil and exp.MatchString dereferences it),
\* "true" on a match, "next" otherwise.
PatternStep(p, path) ==
    IF ~Compiles(p) THEN "panic"
    ELSE IF MatchString(p, path) THEN "true"
    ELSE "next"

RECURSIVE OneOfFrom(_, _, _)
OneOfFrom(ps, i, path) ==
    IF i > Len(ps) THEN "false"
    ELSE LET r == PatternStep(ps[i], path) IN
         IF r = "next" THEN OneOfFrom(ps, i + 1, path) ELSE r

\* The closure MatchesOneOf(patterns...) applied to path.
MatchesOneOf(ps, path) == OneOfFrom(ps, 1, path)

\* A plausible slip: a matcher that matches nothing.
MatchNone(path) == FALSE

MatchAll(path) == TRUE

MAll == [kind |-> "MatchAll", patterns |-> <<>>]

OneOf(ps) == [kind |-> "MatchesOneOf", patterns |-> ps]

\* include(path): "true", "false" or "panic".
Include(m, path) ==
    IF m.kind = "MatchAll"
    THEN (IF MatchAll(path) THEN "true" ELSE "false")
    ELSE MatchesOneOf(m.patterns, path)

\* The matchers handed to the extractor.
Matchers == {MAll, OneOf(<<PatS>>), OneOf(<<PatS, PatBad>>)}

\* --------------------------------------------------------- format dispatch
ContentTypes ==
    {"application/gzip", "application/x-gzip", "application/zip", "", "application/x-tar"}

\* What the bytes of the body are.
Wires == {"gzip+tar", "tar", "zip"}

\* A plausible slip: the second case label forgotten.
FormatOfGzipOnly(ct) ==
    IF ct = "application/gzip" THEN "GzipTar"
    ELSE IF ct = "application/zip" THEN "Zip"
    ELSE "RawTar"

\* The switch on resp.Header.Get("Content-Type").
FormatOf(ct) ==
    IF ct \in {"application/gzip", "application/x-gzip"} THEN "GzipTar"
    ELSE IF ct = "application/zip" THEN "Zip"
    ELSE "RawTar"

\* gzip.NewReader accepts the body.
GzipHeaderOK(w) == w = "gzip+tar"

\* zip.NewReader accepts the buffered body.
ZipFormatOK(w) == w = "zip"

\* The reader given to tar.NewReader yields tar blocks.
TarDecodable(f, w) ==
    \/ f = "GzipTar" /\ w = "gzip+tar"
    \/ f = "RawTar" /\ w = "tar"

\* ------------------------------------------------------------ tar entries
\* A plausible slip: only the PAX test.
TarSkippedPaxOnly(hdr) == hdr.format = "PAX"

\* hdr.Format == tar.FormatPAX || hdr.FileInfo().IsDir()
TarSkipped(hdr) == hdr.format = "PAX" \/ hdr.isDir

\* f.FileInfo().IsDir()
ZipSkipped(f) == f.isDir

\* The name under which a tar entry is offered to the matcher, or skip.
TarKey(name, strip) ==
    IF strip > 0
    THEN LET l == SplitN(name, PathSeparator, strip + 1) IN
         IF Len(l) <= strip
         THEN [skip |-> TRUE, name |-> name]
         ELSE [skip |-> FALSE, name |-> l[strip + 1]]
    ELSE [skip |-> FALSE, name |-> name]

\* One iteration of the tar loop on a header whose content reads without error.
TarStep(fs, hdr, strip, m) ==
    IF TarSkipped(hdr) THEN [files |-> fs, panic |-> FALSE]
    ELSE LET k == TarKey(hdr.name, strip) IN
         IF k.skip THEN [files |-> fs, panic |-> FALSE]
         ELSE LET r == Include(m, k.name) IN
              IF r = "panic" THEN [files |-> fs, panic |-> TRUE]
              ELSE IF r = "true"
                   THEN [files |-> Put(fs, k.name, RepositoryFile(k.name, hdr)),
                         panic |-> FALSE]
                   ELSE [files |-> fs, panic |-> FALSE]

\* One iteration of the zip loop on an entry that opens and reads without error.
ZipStep(fs, f, m) ==
    IF ZipSkipped(f) THEN [files |-> fs, panic |-> FALSE]
    ELSE LET r == Include(m, f.name) IN
         IF r = "panic" THEN [files |-> fs, panic |-> TRUE]
         ELSE IF r = "true"
              THEN [files |-> Put(fs, f.name, RepositoryFile(f.name, f)),
                    panic |-> FALSE]
              ELSE [files |-> fs, panic |-> FALSE]

\* ------------------------------------------- readTarResponse as a function
\* What readTarResponse returns on a stream every read of which succeeds:
\* the tar loop from entry i on.
RECURSIVE TarAll(_, _, _, _, _)
TarAll(es, i, fs, strip, m) ==
    IF i > Len(es) THEN [ret |-> SomeMap(fs), err |-> "nil", panic |-> FALSE]
    ELSE LET s == TarStep(fs, es[i], strip, m) IN
         IF s.panic THEN [ret |-> NilMap, err |-> "nil", panic |-> TRUE]
         ELSE TarAll(es, i + 1, s.files, strip, m)

\* The zip loop from entry i on.
RECURSIVE ZipAll(_, _, _, _)
ZipAll(es, i, fs, m) ==
    IF i > Len(es) THEN [ret |-> SomeMap(fs), err |-> "nil", panic |-> FALSE]
    ELSE LET s == ZipStep(fs, es[i], m) IN
         IF s.panic THEN [ret |-> NilMap, err |-> "nil", panic |-> TRUE]
         ELSE ZipAll(es, i + 1, s.files, m)

Failed(e) == [ret |-> NilMap, err |-> e, panic |-> FALSE]

\* readTarResponse(resp, strip, m) where resp declares content type ct and its
\* body is a w stream of the entries es, read without a transport error.
ReadTarResponse(ct, w, es, strip, m) ==
    LET f == FormatOf(ct) IN
    IF f = "GzipTar"
    THEN (IF ~GzipHeaderOK(w) THEN Failed("gzip: invalid header")
          ELSE TarAll(es, 1, EmptyFiles, strip, m))
    ELSE IF f = "Zip"
    THEN (IF ~ZipFormatOK(w) THEN Failed("zip: not a valid zip file")
          ELSE ZipAll(es, 1, EmptyFiles, m))
    ELSE (IF ~TarDecodable(f, w) THEN Failed("tar: invalid header")
          ELSE TarAll(es, 1, EmptyFiles, strip, m))

\* ------------------------------------------------------------------- state
VARIABLES
    caller,       \* the entry point this run exercises
    cInclude,     \* DownloadSelectedRepositoryFiles: the include argument
    cpc,          \* where the caller (or the matcher under test) is
    status,       \* resp.StatusCode of the caller's response, 0 before it
    respBody,     \* "none", "open" or "closed": resp.Body of the caller
    cret,         \* the map the caller returns
    cerr,         \* the error the caller holds or returns
    artifacts,    \* DownloadArtifact: the names of the listed artifacts
    wanted,       \* DownloadArtifact: the name argument
    ai,           \* DownloadArtifact: the loop index into artifacts
    contentType,  \* readTarResponse: resp.Header.Get("Content-Type")
    wire,         \* readTarResponse: what the bytes of resp.Body are
    stripFolder,  \* readTarResponse: the stripFolder argument
    include,      \* readTarResponse: the include argument
    pc,           \* readTarResponse: "idle", "dispatch", "tarLoop", "zipLoop", "done", "panic"
    format,       \* readTarResponse: the branch the switch took
    entries,      \* tar headers tr.Next() has returned so far, or r.File
    idx,          \* the number of entries whose loop iteration has completed
    files,        \* the local map files
    ret,          \* the returned map
    err,          \* the returned error
    libErr,       \* a library call has reported an error
    warnings,     \* the kinds of core.Warningf lines written
    mpath,        \* MatchesOneOf under test: the path
    mi,           \* MatchesOneOf under test: the loop index into the patterns
    mres          \* MatchesOneOf under test: the value returned

callerVars == <<caller, cInclude, cpc, status, respBody, cret, cerr, artifacts, wanted, ai>>

inputVars == <<contentType, wire, stripFolder, include>>

matchVars == <<mpath, mi, mres>>

extractVars == <<pc, format, entries, idx, files, ret, err, libErr, warnings>>

vars == <<callerVars, inputVars, matchVars, extractVars>>

CallerIdle ==
    /\ cInclude = MAll /\ cpc = "none" /\ status = 0 /\ respBody = "none"
    /\ cret = NilMap /\ cerr = "nil" /\ artifacts = <<>> /\ wanted = "" /\ ai = 0

MatchIdle == mpath = <<>> /\ mi = 0 /\ mres = "none"

ExtractFresh ==
    /\ format = "unset" /\ entries = <<>> /\ idx = 0 /\ files = EmptyFiles
    /\ ret = NilMap /\ err = "nil" /\ libErr = FALSE /\ warnings = {}

\* A direct call of readTarResponse.
Init ==
    /\ caller = "readTarResponse"
    /\ CallerIdle /\ MatchIdle /\ ExtractFresh
    /\ contentType \in ContentTypes
    /\ wire \in Wires
    /\ stripFolder \in 0..MaxStrip
    /\ include \in Matchers
    /\ pc = "dispatch"

\* --------------------------------------------------- readTarResponse steps
Return(r, e) == ret' = r /\ err' = e /\ pc' = "done"

ReturnError(e) == Return(NilMap, e) /\ libErr' = TRUE

Untouched == UNCHANGED <<callerVars, inputVars, matchVars>>

\* case "application/gzip", "application/x-gzip": the gzip reader is built.
DispatchGzip ==
    /\ pc = "dispatch" /\ FormatOf(contentType) = "GzipTar"
    /\ GzipHeaderOK(wire)
    /\ format' = "GzipTar" /\ pc' = "tarLoop"
    /\ UNCHANGED <<entries, idx, files, ret, err, libErr, warnings>>
    /\ Untouched

\* gzip.NewReader fails: not a gzip stream, or the read fails.
DispatchGzipError ==
    /\ pc = "dispatch" /\ FormatOf(contentType) = "GzipTar"
    /\ format' = "GzipTar"
    /\ ReturnError("gzip: invalid header")
    /\ UNCHANGED <<entries, idx, files, warnings>>
    /\ Untouched

\* case "application/zip": io.Copy of the body fails.
DispatchZipReadError ==
    /\ pc = "dispatch" /\ FormatOf(contentType) = "Zip"
    /\ format' = "Zip"
    /\ ReturnError("read error")
    /\ UNCHANGED <<entries, idx, files, warnings>>
    /\ Untouched

\* zip.NewReader fails on the buffered body.
DispatchZipFormatError ==
    /\ pc = "dispatch" /\ FormatOf(contentType) = "Zip"
    /\ ~ZipFormatOK(wire)
    /\ format' = "Zip"
    /\ ReturnError("zip: not a valid zip file")
    /\ UNCHANGED <<entries, idx, files, warnings>>
    /\ Untouched

\* zip.NewReader returns the central directory r.File.
DispatchZip ==
    /\ pc = "dispatch" /\ FormatOf(contentType) = "Zip"
    /\ ZipFormatOK(wire)
    /\ format' = "Zip" /\ pc' = "zipLoop"
    /\ entries' \in BSeq(ZipEntries, MaxEntries)
    /\ UNCHANGED <<idx, files, ret, err, libErr, warnings>>
    /\ Untouched

\* No case of the switch applies: the body is read as a tar stream as it is.
DispatchRawTar ==
    /\ pc = "dispatch" /\ FormatOf(contentType) = "RawTar"
    /\ format' = "RawTar" /\ pc' = "tarLoop"
    /\ UNCHANGED <<entries, idx, files, ret, err, libErr, warnings>>
    /\ Untouched

\* tr.Next() returns the header e.
TarReads(e) ==
    /\ pc = "tarLoop"
    /\ TarDecodable(format, wire)
    /\ Len(entries) < MaxEntries
    /\ e \in TarEntries

\* The iteration on header e ends with continue or at the end of the loop body.
TarContinue(e) ==
    /\ entries' = Append(entries, e)
    /\ idx' = idx + 1
    /\ files' = TarStep(files, e, stripFolder, include).files
    /\ UNCHANGED <<pc, format, ret, err, libErr>>
    /\ Untouched

\* tr.Next() returns io.EOF.
TarEOF ==
    /\ pc = "tarLoop"
    /\ TarDecodable(format, wire)
    /\ Return(SomeMap(files), "nil")
    /\ UNCHANGED <<format, entries, idx, files, libErr, warnings>>
    /\ Untouched

\* tr.Next() returns another error.
TarHeaderError ==
    /\ pc = "tarLoop"
    /\ ReturnError("tar: invalid header")
    /\ UNCHANGED <<format, entries, idx, files, warnings>>
    /\ Untouched

\* A PAX header or a directory: continue.
TarSkipMeta ==
    \E e \in TarEntries :
        /\ TarReads(e)
        /\ TarSkipped(e)
        /\ TarContinue(e)
        /\ UNCHANGED warnings

\* The name has too few segments: a warning, continue.
TarBelowStrip ==
    \E e \in TarEntries :
        /\ TarReads(e)
        /\ ~TarSkipped(e)
        /\ TarKey(e.name, stripFolder).skip
        /\ TarContinue(e)
        /\ warnings' = warnings \cup {"skipping"}

\* include(name) is false.
TarExcluded ==
    \E e \in TarEntries :
        /\ TarReads(e)
        /\ ~TarSkipped(e)
        /\ ~TarKey(e.name, stripFolder).skip
        /\ Include(include, TarKey(e.name, stripFolder).name) = "false"
        /\ TarContinue(e)
        /\ UNCHANGED warnings

\* A plausible slip: the map built so far returned beside the error.
TarCopyErrorPartial ==
    \E e \in TarEntries :
        /\ TarReads(e)
        /\ ~TarSkipped(e)
        /\ ~TarKey(e.name, stripFolder).skip
        /\ Include(include, TarKey(e.name, stripFolder).name) = "true"
        /\ entries' = Append(entries, e)
        /\ Return(SomeMap(files), "copy error") /\ libErr' = TRUE
        /\ UNCHANGED <<format, idx, files, warnings>>
        /\ Untouched

\* include(name) is true and io.Copy of the content fails.
TarCopyError ==
    \E e \in TarEntries :
        /\ TarReads(e)
        /\ ~TarSkipped(e)
        /\ ~TarKey(e.name, stripFolder).skip
        /\ Include(include, TarKey(e.name, stripFolder).name) = "true"
        /\ entries' = Append(entries, e)
        /\ ReturnError("copy error")
        /\ UNCHANGED <<format, idx, files, warnings>>
        /\ Untouched

\* include(name) is true and the content is stored under name.
TarInsert ==
    \E e \in TarEntries :
        /\ TarReads(e)
        /\ ~TarSkipped(e)
        /\ ~TarKey(e.name, stripFolder).skip
        /\ Include(include, TarKey(e.name, stripFolder).name) = "true"
        /\ TarContinue(e)
        /\ UNCHANGED warnings

\* include(name) reaches a pattern that does not compile: a warning, then the
\* nil *Regexp is dereferenced and the call panics.
TarMatcherPanic ==
    \E e \in TarEntries :
        /\ TarReads(e)
        /\ ~TarSkipped(e)
        /\ ~TarKey(e.name, stripFolder).skip
        /\ Include(include, TarKey(e.name, stripFolder).name) = "panic"
        /\ entries' = Append(entries, e)
        /\ pc' = "panic"
        /\ warnings' = warnings \cup {"unable to compile pattern"}
        /\ UNCHANGED <<format, idx, files, ret, err, libErr>>
        /\ Untouched

\* The zip loop is at entry f = r.File[idx].
ZipAt(f) ==
    /\ pc = "zipLoop"
    /\ idx < Len(entries)
    /\ f = entries[idx + 1]

ZipContinue(f) ==
    /\ idx' = idx + 1
    /\ files' = ZipStep(files, f, include).files
    /\ UNCHANGED <<pc, format, entries, ret, err, libErr, warnings>>
    /\ Untouched

\* The range over r.File is over: return files, nil.
ZipEnd ==
    /\ pc = "zipLoop"
    /\ idx = Len(entries)
    /\ Return(SomeMap(files), "nil")
    /\ UNCHANGED <<format, entries, idx, files, libErr, warnings>>
    /\ Untouched

\* A directory.
ZipSkipDir ==
    \E f \in ZipEntries :
        /\ ZipAt(f)
        /\ ZipSkipped(f)
        /\ ZipContinue(f)

\* include(f.Name) is false.
ZipExcluded ==
    \E f \in ZipEntries :
        /\ ZipAt(f)
        /\ ~ZipSkipped(f)
        /\ Include(include, f.name) = "false"
        /\ ZipContinue(f)

\* f.Open() or ioutil.ReadAll fails.
ZipOpenError ==
    \E f \in ZipEntries :
        /\ ZipAt(f)
        /\ ~ZipSkipped(f)
        /\ Include(include, f.name) = "true"
        /\ ReturnError("zip: read error")
        /\ UNCHANGED <<format, entries, idx, files, warnings>>
        /\ Untouched

\* include(f.Name) is true and the content is stored under f.Name.
ZipInsert ==
    \E f \in ZipEntries :
        /\ ZipAt(f)
        /\ ~ZipSkipped(f)
        /\ Include(include, f.name) = "true"
        /\ ZipContinue(f)

\* include(f.Name) panics on a pattern that does not compile.
ZipMatcherPanic ==
    \E f \in ZipEntries :
        /\ ZipAt(f)
        /\ ~ZipSkipped(f)
        /\ Include(include, f.name) = "panic"
        /\ pc' = "panic"
        /\ warnings' = warnings \cup {"unable to compile pattern"}
        /\ UNCHANGED <<format, entries, idx, files, ret, err, libErr>>
        /\ Untouched

ExtractNext ==
    \/ DispatchGzip \/ DispatchGzipError
    \/ DispatchZipReadError \/ DispatchZipFormatError \/ DispatchZip
    \/ DispatchRawTar
    \/ TarEOF \/ TarHeaderError \/ TarSkipMeta \/ TarBelowStrip \/ TarExcluded
    \/ TarCopyError \/ TarInsert \/ TarMatcherPanic
    \/ ZipEnd \/ ZipSkipDir \/ ZipExcluded \/ ZipOpenError \/ ZipInsert
    \/ ZipMatcherPanic

Next == ExtractNext

Spec == Init /\ [][Next]_vars

\* ------------------------------------------ DownloadSelectedRepositoryFiles
StatusCodes == {StatusOK, 404, 500}

\* A plausible slip: every status below 500 taken for a success.
StatusBelow500(code) == code < 500

\* resp.StatusCode == http.StatusOK
StatusIsOK(code) == code = StatusOK

ExtractIdle ==
    /\ ExtractFresh /\ pc = "idle"
    /\ contentType = "" /\ wire = "tar" /\ stripFolder = 0 /\ include = MAll

InitRepo ==
    /\ caller = "DownloadSelectedRepositoryFiles"
    /\ cInclude \in Matchers
    /\ cpc = "newRequest" /\ status = 0 /\ respBody = "none"
    /\ cret = NilMap /\ cerr = "nil" /\ artifacts = <<>> /\ wanted = "" /\ ai = 0
    /\ MatchIdle /\ ExtractIdle

\* The caller returns nil after core.Warningf("failed to download repository: ...").
WarnAndReturnNil ==
    /\ warnings' = warnings \cup {"failed to download repository"}
    /\ cret' = NilMap
    /\ cpc' = "returned"

\* http.NewRequest fails.
RepoNewRequestError ==
    /\ caller = "DownloadSelectedRepositoryFiles" /\ cpc = "newRequest"
    /\ cerr' = "request error"
    /\ WarnAndReturnNil
    /\ UNCHANGED <<caller, cInclude, status, respBody, artifacts, wanted, ai>>
    /\ UNCHANGED <<inputVars, matchVars, pc, format, entries, idx, files, ret, err, libErr>>

\* http.NewRequest succeeds and the request is authorized.
RepoNewRequest ==
    /\ caller = "DownloadSelectedRepositoryFiles" /\ cpc = "newRequest"
    /\ cpc' = "do"
    /\ UNCHANGED <<caller, cInclude, status, respBody, cret, cerr, artifacts, wanted, ai>>
    /\ UNCHANGED <<inputVars, matchVars, extractVars>>

\* c.Do(req) fails.
RepoDoError ==
    /\ caller = "DownloadSelectedRepositoryFiles" /\ cpc = "do"
    /\ cerr' = "network error"
    /\ WarnAndReturnNil
    /\ UNCHANGED <<caller, cInclude, status, respBody, artifacts, wanted, ai>>
    /\ UNCHANGED <<inputVars, matchVars, pc, format, entries, idx, files, ret, err, libErr>>

\* c.Do(req) returns a response: a status, a content type, a body.
RepoDo ==
    /\ caller = "DownloadSelectedRepositoryFiles" /\ cpc = "do"
    /\ status' \in StatusCodes
    /\ contentType' \in ContentTypes
    /\ wire' \in Wires
    /\ respBody' = "open"
    /\ cpc' = "checkStatus"
    /\ UNCHANGED <<caller, cInclude, cret, cerr, artifacts, wanted, ai>>
    /\ UNCHANGED <<stripFolder, include, matchVars, extractVars>>

\* resp.StatusCode != http.StatusOK: a warning, return nil.
RepoBadStatus ==
    /\ caller = "DownloadSelectedRepositoryFiles" /\ cpc = "checkStatus"
    /\ ~StatusIsOK(status)
    /\ WarnAndReturnNil
    /\ UNCHANGED <<caller, cInclude, status, respBody, cerr, artifacts, wanted, ai>>
    /\ UNCHANGED <<inputVars, matchVars, pc, format, entries, idx, files, ret, err, libErr>>

\* defer resp.Body.Close(); readTarResponse(resp, 1, include) is entered.
RepoCallExtract ==
    /\ caller = "DownloadSelectedRepositoryFiles" /\ cpc = "checkStatus"
    /\ StatusIsOK(status)
    /\ stripFolder' = 1
    /\ include' = cInclude
    /\ pc' = "dispatch"
    /\ cpc' = "extracting"
    /\ UNCHANGED <<caller, cInclude, status, respBody, cret, cerr, artifacts, wanted, ai>>
    /\ UNCHANGED <<contentType, wire, matchVars>>
    /\ UNCHANGED <<format, entries, idx, files, ret, err, libErr, warnings>>

\* readTarResponse returned an error: a warning, return nil; the deferred
\* Close runs.
RepoExtractError ==
    /\ caller = "DownloadSelectedRepositoryFiles" /\ cpc = "extracting"
    /\ pc = "done" /\ err # "nil"
    /\ WarnAndReturnNil
    /\ respBody' = "closed"
    /\ UNCHANGED <<caller, cInclude, status, cerr, artifacts, wanted, ai>>
    /\ UNCHANGED <<inputVars, matchVars, pc, format, entries, idx, files, ret, err, libErr>>

\* readTarResponse returned a map: return it; the deferred Close runs.
RepoReturn ==
    /\ caller = "DownloadSelectedRepositoryFiles" /\ cpc = "extracting"
    /\ pc = "done" /\ err = "nil"
    /\ cret' = ret
    /\ cpc' = "returned"
    /\ respBody' = "closed"
    /\ UNCHANGED <<caller, cInclude, status, cerr, artifacts, wanted, ai>>
    /\ UNCHANGED <<inputVars, matchVars, extractVars>>

\* readTarResponse panicked in the matcher: the deferred Close runs and the
\* panic goes on to the caller's caller.
RepoPanic ==
    /\ caller = "DownloadSelectedRepositoryFiles" /\ cpc = "extracting"
    /\ pc = "panic"
    /\ cpc' = "panic"
    /\ respBody' = "closed"
    /\ UNCHANGED <<caller, cInclude, status, cret, cerr, artifacts, wanted, ai>>
    /\ UNCHANGED <<inputVars, matchVars, extractVars>>

RepoNext ==
    \/ RepoNewRequestError \/ RepoNewRequest \/ RepoDoError \/ RepoDo
    \/ RepoBadStatus \/ RepoCallExtract
    \/ RepoExtractError \/ RepoReturn \/ RepoPanic
    \/ ExtractNext

SpecRepo == InitRepo /\ [][RepoNext]_vars

\* -------------------------------------------------------- DownloadArtifact
ArtifactNames == {"x", "y"}

\* A plausible slip: the name test dropped, so the first artifact is taken.
AnyArtifact(a, name) == TRUE

\* artifact.GetName() == name
ArtifactMatches(a, name) == a = name

InitArtifact ==
    /\ caller = "DownloadArtifact"
    /\ wanted \in ArtifactNames
    /\ cInclude = MAll
    /\ cpc = "list" /\ status = 0 /\ respBody = "none"
    /\ cret = NilMap /\ cerr = "nil" /\ artifacts = <<>> /\ ai = 0
    /\ MatchIdle /\ ExtractIdle

\* return nil, err
ArtFail(e) ==
    /\ cerr' = e
    /\ cret' = NilMap
    /\ cpc' = "returned"
    /\ UNCHANGED <<caller, cInclude, status, respBody, artifacts, wanted, ai>>
    /\ UNCHANGED <<inputVars, matchVars, extractVars>>

ArtGoto(l) ==
    /\ cpc' = l
    /\ UNCHANGED <<caller, cInclude, status, respBody, cret, cerr, artifacts, wanted, ai>>
    /\ UNCHANGED <<inputVars, matchVars, extractVars>>

\* ListWorkflowRunArtifacts fails.
ArtListError ==
    /\ caller = "DownloadArtifact" /\ cpc = "list"
    /\ ArtFail("list error")

\* ListWorkflowRunArtifacts returns the artifacts of the run.
ArtList ==
    /\ caller = "DownloadArtifact" /\ cpc = "list"
    /\ artifacts' \in BSeq(ArtifactNames, MaxArtifacts)
    /\ ai' = 1
    /\ cpc' = "loop"
    /\ UNCHANGED <<caller, cInclude, status, respBody, cret, cerr, wanted>>
    /\ UNCHANGED <<inputVars, matchVars, extractVars>>

\* The artifact at ai has another name: the loop goes on.
ArtSkip ==
    /\ caller = "DownloadArtifact" /\ cpc = "loop"
    /\ ai <= Len(artifacts)
    /\ ~ArtifactMatches(artifacts[ai], wanted)
    /\ ai' = ai + 1
    /\ UNCHANGED <<caller, cInclude, cpc, status, respBody, cret, cerr, artifacts, wanted>>
    /\ UNCHANGED <<inputVars, matchVars, extractVars>>

\* The artifact at ai has the name: it is the one downloaded.
ArtFound ==
    /\ caller = "DownloadArtifact" /\ cpc = "loop"
    /\ ai <= Len(artifacts)
    /\ ArtifactMatches(artifacts[ai], wanted)
    /\ ArtGoto("downloadURL")

\* The loop ends without a match: the "unable to find" error.
ArtNotFound ==
    /\ caller = "DownloadArtifact" /\ cpc = "loop"
    /\ ai > Len(artifacts)
    /\ ArtFail("not found")

\* GitHub.Actions.DownloadArtifact fails.
ArtURLError ==
    /\ caller = "DownloadArtifact" /\ cpc = "downloadURL"
    /\ ArtFail("download url error")

\* GitHub.Actions.DownloadArtifact returns the redirect URL.
ArtURL ==
    /\ caller = "DownloadArtifact" /\ cpc = "downloadURL"
    /\ ArtGoto("newRequest")

\* http.NewRequest fails.
ArtNewRequestError ==
    /\ caller = "DownloadArtifact" /\ cpc = "newRequest"
    /\ ArtFail("request error")

\* http.NewRequest succeeds.
ArtNewRequest ==
    /\ caller = "DownloadArtifact" /\ cpc = "newRequest"
    /\ ArtGoto("do")

\* githubHTTPClient(nil).Do(r) fails.
ArtDoError ==
    /\ caller = "DownloadArtifact" /\ cpc = "do"
    /\ ArtFail("network error")

\* Do returns a response; defer resp.Body.Close();
\* readTarResponse(resp, 0, MatchAll) is entered. resp.StatusCode is not read.
ArtDo ==
    /\ caller = "DownloadArtifact" /\ cpc = "do"
    /\ UNCHANGED status
    /\ contentType' \in ContentTypes
    /\ wire' \in Wires
    /\ respBody' = "open"
    /\ stripFolder' = 0
    /\ include' = MAll
    /\ pc' = "dispatch"
    /\ cpc' = "extracting"
    /\ UNCHANGED <<caller, cInclude, cret, cerr, artifacts, wanted, ai>>
    /\ UNCHANGED <<matchVars, format, entries, idx, files, ret, err, libErr, warnings>>

\* return readTarResponse(...): its map and its error; the deferred Close runs.
ArtReturn ==
    /\ caller = "DownloadArtifact" /\ cpc = "extracting"
    /\ pc = "done"
    /\ cret' = ret
    /\ cerr' = err
    /\ cpc' = "returned"
    /\ respBody' = "closed"
    /\ UNCHANGED <<caller, cInclude, status, artifacts, wanted, ai>>
    /\ UNCHANGED <<inputVars, matchVars, extractVars>>

\* The steps of readTarResponse a call with strip depth 0 and MatchAll can take.
ExtractAllNext ==
    \/ DispatchGzip \/ DispatchGzipError
    \/ DispatchZipReadError \/ DispatchZipFormatError \/ DispatchZip
    \/ DispatchRawTar
    \/ TarEOF \/ TarHeaderError \/ TarSkipMeta \/ TarCopyError \/ TarInsert
    \/ ZipEnd \/ ZipSkipDir \/ ZipOpenError \/ ZipInsert

ArtifactNext ==
    \/ ArtListError \/ ArtList \/ ArtSkip \/ ArtFound \/ ArtNotFound
    \/ ArtURLError \/ ArtURL \/ ArtNewRequestError \/ ArtNewRequest
    \/ ArtDoError \/ ArtDo \/ ArtReturn
    \/ ExtractAllNext

SpecArtifact == InitArtifact /\ [][ArtifactNext]_vars

\* ------------------------------------------------ MatchesOneOf on its own
\* The paths the matcher is asked about.
Paths == {NameA, NameQA, NameRSA, <<>>}

InitMatcher ==
    /\ caller = "MatchesOneOf"
    /\ include \in {OneOf(ps) : ps \in BSeq(Patterns, MaxPatterns)}
    /\ mpath \in Paths
    /\ mi = 1 /\ mres = "none"
    /\ cInclude = MAll /\ cpc = "matching" /\ status = 0 /\ respBody = "none"
    /\ cret = NilMap /\ cerr = "nil" /\ artifacts = <<>> /\ wanted = "" /\ ai = 0
    /\ ExtractFresh /\ pc = "idle"
    /\ contentType = "" /\ wire = "tar" /\ stripFolder = 0

MatchUnchanged ==
    UNCHANGED <<caller, cInclude, status, respBody, cret, cerr, artifacts, wanted, ai,
                inputVars, mpath, pc, format, entries, idx, files, ret, err, libErr>>

\* The loop over the patterns is at pattern mi.
MatchAt(r) ==
    /\ caller = "MatchesOneOf" /\ cpc = "matching"
    /\ mi <= Len(include.patterns)
    /\ PatternStep(include.patterns[mi], mpath) = r

\* The pattern does not compile: a warning, then exp.MatchString on the nil
\* *Regexp panics.
MatchBadPattern ==
    /\ MatchAt("panic")
    /\ warnings' = warnings \cup {"unable to compile pattern"}
    /\ cpc' = "panic"
    /\ UNCHANGED <<mi, mres>>
    /\ MatchUnchanged

\* The pattern matches: return true.
MatchHit ==
    /\ MatchAt("true")
    /\ mres' = "true"
    /\ cpc' = "returned"
    /\ UNCHANGED <<mi, warnings>>
    /\ MatchUnchanged

\* The pattern does not match: the next pattern.
MatchMiss ==
    /\ MatchAt("next")
    /\ mi' = mi + 1
    /\ UNCHANGED <<cpc, mres, warnings>>
    /\ MatchUnchanged

\* No pattern is left: return false.
MatchExhausted ==
    /\ caller = "MatchesOneOf" /\ cpc = "matching"
    /\ mi > Len(include.patterns)
    /\ mres' = "false"
    /\ cpc' = "returned"
    /\ UNCHANGED <<mi, warnings>>
    /\ MatchUnchanged

MatcherNext == MatchBadPattern \/ MatchHit \/ MatchMiss \/ MatchExhausted

SpecMatcher == InitMatcher /\ [][MatcherNext]_vars

\* ------------------------------------------------------ the claims' terms
Max(S) == CHOOSE x \in S : \A y \in S : y <= x

\* The places of the path separators of a name.
SepPositions(name) == {i \in 1..Len(name) : name[i] = "/"}

\* The number of segments of a name.
SegmentCount(name) == Cardinality(SepPositions(name)) + 1

\* The whole of name after its first d separators (it has at least d).
RemainderAfter(name, d) ==
    IF d = 0 THEN name
    ELSE LET at == CHOOSE i \in SepPositions(name) :
                       Cardinality({j \in SepPositions(name) : j <= i}) = d
         IN SubSeq(name, at + 1, Len(name))

IsTar == format \in {"GzipTar", "RawTar"}

\* The entry is neither a directory nor, in a tar stream, a PAX-format header.
Eligible(e) == ~e.isDir /\ ~(IsTar /\ e.format = "PAX")

\* The entry lies below the stripped level: its name has at most d segments.
BelowStrip(e) == IsTar /\ stripFolder > 0 /\ SegmentCount(e.name) <= stripFolder

\* The key a kept entry is stored under.
ExpectedKey(e) ==
    IF IsTar THEN RemainderAfter(e.name, stripFolder) ELSE e.name

\* The entry of the i-th completed iteration is kept.
Accepted(i) ==
    /\ Eligible(entries[i])
    /\ ~BelowStrip(entries[i])
    /\ Include(include, ExpectedKey(entries[i])) = "true"

\* C1: on the tar path with strip depth d, after every iteration, the keys of
\* the map are exactly the remainders after the first d separators of the
\* non-directory, non-PAX entries read so far that have more than d segments
\* and that the matcher accepts under that remainder (the raw name when d = 0);
\* an entry with at most d segments leaves a warning, no error and no key;
\* a name is split into at most d+1 segments.
C1_StripDepth ==
    (IsTar /\ pc \in {"tarLoop", "done", "panic"}) =>
        /\ DOMAIN files = {ExpectedKey(entries[i]) : i \in {j \in 1..idx : Accepted(j)}}
        /\ \A k \in DOMAIN files : files[k].Path = k
        /\ \A i \in 1..idx :
               (Eligible(entries[i]) /\ BelowStrip(entries[i])) =>
                   /\ "skipping" \in warnings
                   /\ \A k \in DOMAIN files : files[k].FileInfo.Name # entries[i].name
        /\ (stripFolder = 0 => "skipping" \notin warnings)
        /\ (err = "nil" => idx = Len(entries) \/ pc = "panic")
        /\ \A i \in 1..Len(entries) :
               stripFolder > 0 =>
                   Len(SplitN(entries[i].name, PathSeparator, stripFolder + 1))
                       = IF SegmentCount(entries[i].name) <= stripFolder
                         THEN SegmentCount(entries[i].name)
                         ELSE stripFolder + 1

C1_Witness ==
    /\ pc = "done" /\ IsTar /\ err = "nil" /\ stripFolder = 1
    /\ \E i \in 1..idx : Eligible(entries[i]) /\ BelowStrip(entries[i])
    /\ <<"s", "/", "a">> \in DOMAIN ret.m

\* C2: in every state, no record of the map (the local one or the returned
\* one) was made from an entry classified as a directory.
C2_NoDirectories ==
    /\ \A k \in DOMAIN files : ~files[k].FileInfo.IsDir
    /\ \A k \in DOMAIN ret.m : ~ret.m[k].FileInfo.IsDir

C2_Witness ==
    /\ pc = "done" /\ err = "nil"
    /\ \E i \in 1..idx : entries[i].isDir
    /\ DOMAIN ret.m # {}

\* C3: when the call returns without error, every key of the returned map
\* holds the record (path, metadata, data) of the last entry, in archive order,
\* that was kept under that key; and a call none of whose library reads failed
\* returns no error.
C3_LastWriteWins ==
    (pc = "done") =>
        /\ (~libErr => err = "nil")
        /\ (err = "nil" =>
               \A k \in DOMAIN ret.m :
                   LET js == {i \in 1..idx : Accepted(i) /\ ExpectedKey(entries[i]) = k}
                   IN /\ js # {}
                      /\ ret.m[k] = [Path |-> k,
                                     FileInfo |-> [Name |-> entries[Max(js)].name,
                                                   IsDir |-> entries[Max(js)].isDir],
                                     Data |-> entries[Max(js)].data])

C3_Witness ==
    /\ pc = "done" /\ err = "nil"
    /\ \E i, j \in 1..idx :
           /\ i < j /\ Accepted(i) /\ Accepted(j)
           /\ ExpectedKey(entries[i]) = ExpectedKey(entries[j])
           /\ entries[i].data # entries[j].data
           /\ entries[i].name # entries[j].name

\* C4: a call that met an error returns a nil map and that error; no call
\* returns a non-nil map beside a non-nil error.
C4_AllOrNothing ==
    (pc = "done") =>
        /\ (libErr => ret.isNil /\ err # "nil")
        /\ ~(~ret.isNil /\ err # "nil")
        /\ (err = "nil" => ~ret.isNil)

C4_Witness ==
    /\ pc = "done" /\ err # "nil" /\ ret.isNil
    /\ DOMAIN files # {}

\* C6 as stated: under MatchAll every entry that is neither a directory nor a
\* PAX record is in the result, whatever the strip depth.
C6_Original ==
    (pc = "done" /\ err = "nil" /\ include = MAll) =>
        \A i \in 1..idx :
            Eligible(entries[i]) =>
                /\ ~BelowStrip(entries[i])
                /\ ExpectedKey(entries[i]) \in DOMAIN ret.m

\* C6 amended: under MatchAll, when the call returns without error, every
\* entry that is neither a directory nor a PAX-format tar header, and that on
\* the tar path with strip depth d > 0 has more than d segments, has its
\* effective path as a key of the result.
C6_MatchAllIncludes ==
    (pc = "done" /\ err = "nil" /\ include = MAll) =>
        \A i \in 1..idx :
            (Eligible(entries[i]) /\ ~BelowStrip(entries[i])) =>
                ExpectedKey(entries[i]) \in DOMAIN ret.m

C6_Witness ==
    /\ pc = "done" /\ err = "nil" /\ include = MAll /\ stripFolder = 1
    /\ \E i, j \in 1..idx :
           /\ Eligible(entries[i]) /\ BelowStrip(entries[i])
           /\ Eligible(entries[j]) /\ ~BelowStrip(entries[j])
           /\ ExpectedKey(entries[j]) \in DOMAIN ret.m

\* The format the claim assigns to a declared content type.
ExpectedFormat(ct) ==
    CASE ct = "application/gzip" -> "GzipTar"
      [] ct = "application/x-gzip" -> "GzipTar"
      [] ct = "application/zip" -> "Zip"
      [] OTHER -> "RawTar"

C7_State ==
    /\ (pc \in {"idle", "dispatch"} => format = "unset")
    /\ (pc \notin {"idle", "dispatch"} => format = ExpectedFormat(contentType))
    /\ (pc = "tarLoop" => IsTar)
    /\ (pc = "zipLoop" => format = "Zip")
    /\ ReadTarResponse("application/gzip", wire, entries, stripFolder, include)
           = ReadTarResponse("application/x-gzip", wire, entries, stripFolder, include)
    /\ \A ct \in ContentTypes :
           ExpectedFormat(ct) = "RawTar" =>
               ReadTarResponse(ct, wire, entries, stripFolder, include)
                   = ReadTarResponse("", wire, entries, stripFolder, include)
    /\ (pc = "done" /\ ~libErr) =>
           LET r == ReadTarResponse(contentType, wire, entries, stripFolder, include)
           IN ~r.panic /\ r.ret = ret /\ r.err = err
    /\ (pc = "panic") =>
           ReadTarResponse(contentType, wire, entries, stripFolder, include).panic

\* C7: the format is the one the declared content type selects (gzip+tar for
\* "application/gzip" and "application/x-gzip", zip for "application/zip", raw
\* tar for anything else), the two gzip types give the same result on the same
\* bytes, and once chosen the format does not change.
C7_FormatDispatch ==
    /\ []C7_State
    /\ [][format # "unset" => format' = format]_vars

C7_Witness ==
    /\ pc = "done" /\ err = "nil"
    /\ contentType = "application/x-gzip"
    /\ DOMAIN ret.m # {}

\* C5 as stated: a call of the matcher always returns, and returns true exactly
\* when one of the patterns that compile matches the path.
C5_CompileFailureNonFatal ==
    (caller = "MatchesOneOf" /\ cpc \in {"returned", "panic"}) =>
        /\ cpc = "returned"
        /\ (mres = "true") <=>
               \E i \in 1..Len(include.patterns) :
                   /\ Compiles(include.patterns[i])
                   /\ MatchString(include.patterns[i], mpath)

\* The call failed for one of the causes the caller downgrades to a warning.
RepoFailure == cerr # "nil" \/ status # StatusOK \/ err # "nil"

\* C8: DownloadSelectedRepositoryFiles returns nil, with a warning written,
\* after a request error, a network error, a status other than 200 or an
\* extraction error, and these never end the call otherwise; a map it returns
\* is the whole map of a successful extraction; the extractor is entered only
\* on status 200, with strip depth 1 and the caller's matcher.
C8_BestEffort ==
    (caller = "DownloadSelectedRepositoryFiles") =>
        /\ (cpc = "returned" /\ RepoFailure) =>
               /\ cret.isNil
               /\ "failed to download repository" \in warnings
        /\ (cpc = "returned" /\ ~cret.isNil) =>
               /\ ~RepoFailure /\ pc = "done" /\ cret = ret /\ cret.m = files
        /\ (cpc = "returned" /\ ~RepoFailure) => ~cret.isNil
        /\ (cpc = "panic" => pc = "panic" /\ ~RepoFailure)
        /\ (pc # "idle") =>
               /\ status = StatusOK /\ respBody # "none"
               /\ stripFolder = 1 /\ include = cInclude

C8_Witness ==
    /\ caller = "DownloadSelectedRepositoryFiles"
    /\ cpc = "returned" /\ status = StatusOK
    /\ err # "nil" /\ DOMAIN files # {} /\ cret.isNil

\* First(S): the least index of S.
Min(S) == CHOOSE x \in S : \A y \in S : x <= y

\* The places of the listed artifacts that have the wanted name.
Named == {i \in 1..Len(artifacts) : artifacts[i] = wanted}

\* C9: when the listing succeeds and no listed artifact has the name, the
\* call returns a nil map and the not-found error; when one has, the one
\* selected is the first in list order, the not-found error is not returned,
\* and the extractor, if entered, runs with strip depth 0 and MatchAll.
C9_ArtifactByName ==
    (caller = "DownloadArtifact") =>
        /\ (cpc = "returned" /\ cerr # "list error" /\ Named = {}) =>
               cret.isNil /\ cerr = "not found"
        /\ (cpc \notin {"list", "loop"} /\ Named # {}) =>
               /\ ai = Min(Named)
               /\ cerr # "not found"
        /\ (pc # "idle") =>
               /\ Named # {} /\ ai = Min(Named)
               /\ stripFolder = 0 /\ include = MAll

C9_Witness ==
    /\ caller = "DownloadArtifact" /\ cpc = "returned"
    /\ Len(artifacts) = 2 /\ artifacts[1] # wanted /\ artifacts[2] = wanted
    /\ ~cret.isNil /\ DOMAIN cret.m # {}

\* C10 as stated: when DownloadSelectedRepositoryFiles returns, the body of
\* every response c.Do gave it is closed.
C10_BodyClosed ==
    (caller = "DownloadSelectedRepositoryFiles" /\ cpc = "returned" /\ respBody # "none")
        => respBody = "closed"

====
